---- MODULE Spec2Model ----
(***************************************************************************)
(* gloop: a modal (vim-style) terminal editor with a command line.         *)
(*                                                                         *)
(* The model follows src/src/main.rs: the application loop App::run, the   *)
(* event dispatcher App::handle_events / App::handle_keyevent (one action  *)
(* per match arm) and the command interpreter App::parse_command.  The two *)
(* tui_textarea::TextArea widgets (editor, commandline) are modelled by    *)
(* the operations main.rs calls on them; base64 and UTF-8 are computed on  *)
(* bytes.                                                                  *)
(*                                                                         *)
(* Text is a sequence of Unicode code points; a buffer is a sequence of    *)
(* lines.  Rows and columns are 0-based as in the widget, sequences are    *)
(* 1-based, so line r of a buffer is lines[r + 1].                         *)
(***************************************************************************)
EXTENDS Integers, Sequences, FiniteSets, TLC

VARIABLES
    should_exit,   \* App.should_exit
    mode,          \* App.mode
    editor,        \* App.editor: the main buffer widget
    commandline,   \* App.commandline: the command buffer widget
    status,        \* where App::run is: "running", "exited", "failed", "panicked"
    error,         \* the Err value App::run returned with (NoError while there is none)
    event_kind    \* what the last loop iteration read: the KeyEventKind of a key
                   \* event, "NotKey" for another event, "None" before the first

vars == <<should_exit, mode, editor, commandline, status, error, event_kind>>

(***************************************************************************)
(* Bounds of the exploration (the program itself bounds none of these).    *)
(***************************************************************************)
\* The environment stops editing the main buffer once its undo history
\* holds this many edits outside a session typed straight in.
MaxEdits == 2
\* The environment types no document longer than this many characters
\* (line breaks included).
MaxText == 4

(***************************************************************************)
(* Characters                                                              *)
(***************************************************************************)
\* The printable ASCII characters, in code order from 32 (space) to 126
\* (the double quote, the backslash and the backtick are written by name).
AsciiTable ==
    << " ", "!", "dquote", "#", "$", "%", "&", "'", "(", ")", "*", "+", ",", "-",
       ".", "/", "0", "1", "2", "3", "4", "5", "6", "7", "8", "9", ":", ";",
       "<", "=", ">", "?", "@", "A", "B", "C", "D", "E", "F", "G", "H", "I",
       "J", "K", "L", "M", "N", "O", "P", "Q", "R", "S", "T", "U", "V", "W",
       "X", "Y", "Z", "[", "backslash", "]", "^", "_", "backtick", "a", "b", "c", "d", "e",
       "f", "g", "h", "i", "j", "k", "l", "m", "n", "o", "p", "q", "r", "s",
       "t", "u", "v", "w", "x", "y", "z", "{", "|", "}", "~" >>

\* The code point of a printable ASCII character written as a string.
Ord ==
    [s \in {AsciiTable[i] : i \in 1..Len(AsciiTable)} |->
        31 + (CHOOSE i \in 1..Len(AsciiTable) : AsciiTable[i] = s)]

\* A Rust string literal, written as the sequence of its characters.
Str(cs) == [i \in 1..Len(cs) |-> Ord[cs[i]]]

NL == Ord[" "] - 22   \* '\n'
CR == Ord[" "] - 19   \* '\r'
TAB == Ord[" "] - 23  \* '\t'

Min(a, b) == IF a <= b THEN a ELSE b

\* s[from..to) by 0-based character index, as Rust's slices.
Slice(s, from, to) == SubSeq(s, from + 1, to)

\* char::is_whitespace, on the characters the model can hold
is_whitespace(c) == c \in {Ord[" "], NL, CR, TAB, 11, 12}

\* char::is_ascii_punctuation
is_ascii_punctuation(c) ==
    \/ c \in 33..47
    \/ c \in 58..64
    \/ c \in 91..96
    \/ c \in 123..126

RECURSIVE Flatten(_)
\* the concatenation of a sequence of sequences
Flatten(ss) == IF ss = <<>> THEN <<>> ELSE Head(ss) \o Flatten(Tail(ss))

RECURSIVE join(_, _)
\* [String]::join(sep): `lines` joined with `sep` between them
join(lines, sep) ==
    IF Len(lines) = 0 THEN <<>>
    ELSE IF Len(lines) = 1 THEN lines[1]
    ELSE lines[1] \o sep \o join(Tail(lines), sep)

RECURSIVE split(_, _)
\* str::split(sep) for a one-character separator: never empty, "" gives [""]
split(s, sep) ==
    IF \A i \in 1..Len(s) : s[i] # sep THEN <<s>>
    ELSE LET k == CHOOSE i \in 1..Len(s) :
                      s[i] = sep /\ \A j \in 1..(i - 1) : s[j] # sep
         IN  <<SubSeq(s, 1, k - 1)>> \o split(SubSeq(s, k + 1, Len(s)), sep)

RECURSIVE skip_whitespace(_)
\* the string with its leading whitespace dropped
skip_whitespace(s) ==
    IF s # <<>> /\ is_whitespace(s[1]) THEN skip_whitespace(Tail(s)) ELSE s

RECURSIVE take_token(_)
\* the longest prefix without whitespace
take_token(s) ==
    IF s = <<>> \/ is_whitespace(s[1]) THEN <<>>
    ELSE <<s[1]>> \o take_token(Tail(s))

RECURSIVE split_whitespace(_)
\* str::split_whitespace: the maximal runs of non-whitespace characters
split_whitespace(s) ==
    LET t == skip_whitespace(s) IN
    IF t = <<>> THEN <<>>
    ELSE LET tok == take_token(t)
         IN  <<tok>> \o split_whitespace(SubSeq(t, Len(tok) + 1, Len(t)))

\* .split_whitespace().nth(n).unwrap_or_default(): token n (0-based) or ""
nth_token(s, n) ==
    LET toks == split_whitespace(s)
    IN  IF n < Len(toks) THEN toks[n + 1] ELSE <<>>

(***************************************************************************)
(* tui_textarea::TextArea, as far as main.rs drives it.                    *)
(*   lines            the text, never empty (an empty buffer is [""])      *)
(*   cursor           <<row, col>>, col in characters                      *)
(*   selection_start  <<row, col>>, or <<>> for None                       *)
(*   yank             the register: a sequence of lines, one line for a    *)
(*                    piece and more for a chunk                           *)
(*   history, hidx    the undo history and its index; an edit keeps the    *)
(*                    text and the cursor position recorded before and     *)
(*                    after it                                             *)
(***************************************************************************)
None == <<>>

\* TextArea::default()
TextArea_default ==
    [lines |-> << <<>> >>, cursor |-> <<0, 0>>, selection_start |-> None,
     yank |-> << <<>> >>, history |-> <<>>, hidx |-> 0]

\* TextArea::lines()
lines_of(ta) == ta.lines

\* the number of characters of line `row`
line_len(lines, row) == Len(lines[row + 1])

\* CursorMove's fit_col
fit_col(col, line) == Min(col, Len(line))

CharKind(c) ==
    IF is_whitespace(c) THEN "Space"
    ELSE IF is_ascii_punctuation(c) THEN "Punct"
    ELSE "Other"

\* the columns of `line` where a word starts after a character of another kind
word_starts(line) ==
    {p \in 1..(Len(line) - 1) :
        /\ CharKind(line[p + 1]) # "Space"
        /\ CharKind(line[p]) # CharKind(line[p + 1])}

\* word::find_word_start_forward: the column, or -1 for None
find_word_start_forward(line, start_col) ==
    LET found == {p \in word_starts(line) : p > start_col}
    IN  IF start_col >= Len(line) \/ found = {} THEN -1
        ELSE CHOOSE p \in found : \A q \in found : p <= q

\* word::find_word_start_backward: the column, or -1 for None
find_word_start_backward(line, start_col) ==
    LET col == Min(start_col, Len(line))
        found == {p \in word_starts(line) : p < col}
    IN  IF col = 0 THEN -1
        ELSE IF found # {} THEN CHOOSE p \in found : \A q \in found : p >= q
        ELSE IF CharKind(line[1]) # "Space" THEN 0
        ELSE -1

\* CursorMove::next_cursor: the new cursor, or None when the move is refused
next_cursor(m, cursor, lines) ==
    LET row == cursor[1]
        col == cursor[2]
        line == lines[row + 1]
    IN  CASE m = "Forward" ->
                IF col >= Len(line)
                THEN IF row + 1 < Len(lines) THEN <<row + 1, 0>> ELSE None
                ELSE <<row, col + 1>>
          [] m = "Back" ->
                IF col = 0
                THEN IF row > 0 THEN <<row - 1, line_len(lines, row - 1)>> ELSE None
                ELSE <<row, col - 1>>
          [] m = "Up" ->
                IF row > 0 THEN <<row - 1, fit_col(col, lines[row])>> ELSE None
          [] m = "Down" ->
                IF row + 1 < Len(lines)
                THEN <<row + 1, fit_col(col, lines[row + 2])>> ELSE None
          [] m = "Head" -> <<row, 0>>
          [] m = "End" -> <<row, Len(line)>>
          [] m = "WordForward" ->
                LET c == find_word_start_forward(line, col)
                IN  IF c >= 0 THEN <<row, c>>
                    ELSE IF row + 1 < Len(lines) THEN <<row + 1, 0>>
                    ELSE <<row, Len(line)>>
          [] m = "WordBack" ->
                LET c == find_word_start_backward(line, col)
                IN  IF c >= 0 THEN <<row, c>>
                    ELSE IF row > 0 THEN <<row - 1, line_len(lines, row - 1)>>
                    ELSE <<row, 0>>
          [] m = "JumpEnd" ->   \* CursorMove::Jump(u16::MAX, u16::MAX)
                <<Len(lines) - 1, Len(lines[Len(lines)])>>

\* TextArea::start_selection
start_selection(ta) == [ta EXCEPT !.selection_start = ta.cursor]

\* TextArea::cancel_selection
cancel_selection(ta) == [ta EXCEPT !.selection_start = None]

\* TextArea::move_cursor: a move keeps the selection when there is one
move_cursor(ta, m) ==
    LET next == next_cursor(m, ta.cursor, ta.lines)
        shift == ta.selection_start # None
    IN  IF next = None THEN ta
        ELSE [(IF shift THEN ta ELSE cancel_selection(ta)) EXCEPT !.cursor = next]

\* TextArea::select_all
select_all(ta) == [move_cursor(ta, "JumpEnd") EXCEPT !.selection_start = <<0, 0>>]

\* History::push with max_items = MAX_HISTORIES: the redo tail is dropped
push_history(ta, lines_before, before, lines_after) ==
    LET edit == [lines_before |-> lines_before, before |-> before,
                 lines_after |-> lines_after, after |-> ta.cursor]
    IN  [ta EXCEPT !.history = Append(SubSeq(ta.history, 1, ta.hidx), edit),
                   !.hidx = ta.hidx + 1]

\* positions in document order
pos_before(p, q) == p[1] < q[1] \/ (p[1] = q[1] /\ p[2] < q[2])

\* the text of `lines` from position s to position e, as a sequence of lines
text_between(lines, s, e) ==
    IF s[1] = e[1] THEN <<Slice(lines[s[1] + 1], s[2], e[2])>>
    ELSE <<Slice(lines[s[1] + 1], s[2], Len(lines[s[1] + 1]))>>
         \o SubSeq(lines, s[1] + 2, e[1])
         \o <<Slice(lines[e[1] + 1], 0, e[2])>>

\* `lines` without the text from position s to position e
lines_without(lines, s, e) ==
    SubSeq(lines, 1, s[1])
    \o <<Slice(lines[s[1] + 1], 0, s[2])
         \o Slice(lines[e[1] + 1], e[2], Len(lines[e[1] + 1]))>>
    \o SubSeq(lines, e[1] + 2, Len(lines))

\* `lines` with the lines of `chunk` inserted at position p
lines_with(lines, p, chunk) ==
    LET line == lines[p[1] + 1]
        head == Slice(line, 0, p[2])
        tail == Slice(line, p[2], Len(line))
        n == Len(chunk)
    IN  SubSeq(lines, 1, p[1])
        \o (IF n = 1 THEN <<head \o chunk[1] \o tail>>
            ELSE <<head \o chunk[1]>> \o SubSeq(chunk, 2, n - 1) \o <<chunk[n] \o tail>>)
        \o SubSeq(lines, p[1] + 2, Len(lines))

\* A faulty delete_range, which records no edit in the history.
delete_range_unrecorded(ta, s, e, should_yank) ==
    [ta EXCEPT !.cursor = s, !.lines = lines_without(ta.lines, s, e),
               !.yank = IF should_yank THEN text_between(ta.lines, s, e) ELSE ta.yank]

\* TextArea::delete_range: the cursor goes to the start of the range
delete_range(ta, s, e, should_yank) ==
    LET removed == text_between(ta.lines, s, e)
        after == lines_without(ta.lines, s, e)
        t == [ta EXCEPT !.cursor = s, !.lines = after,
                        !.yank = IF should_yank THEN removed ELSE ta.yank]
    IN  push_history(t, ta.lines, e, after)

\* TextArea::delete_selection (with take_selection_positions): the selection
\* is taken in any case; an empty one deletes nothing
delete_selection(ta, should_yank) ==
    LET s == ta.selection_start
        e == ta.cursor
        t == [ta EXCEPT !.selection_start = None]
    IN  IF s = None \/ s = e THEN t
        ELSE IF pos_before(s, e) THEN delete_range(t, s, e, should_yank)
        ELSE delete_range(t, e, s, should_yank)

\* A faulty cut, which does not put the text in the register.
cut_unyanked(ta) == delete_selection(ta, FALSE)

\* TextArea::cut
cut(ta) == delete_selection(ta, TRUE)

\* TextArea::copy: the selection is taken, its text goes to the register
copy(ta) ==
    LET s == ta.selection_start
        e == ta.cursor
        t == [ta EXCEPT !.selection_start = None]
    IN  IF s = None \/ s = e THEN t
        ELSE IF pos_before(s, e) THEN [t EXCEPT !.yank = text_between(ta.lines, s, e)]
        ELSE [t EXCEPT !.yank = text_between(ta.lines, e, s)]

\* TextArea::insert_piece / insert_chunk, after the selection is gone: an
\* empty piece is no edit
insert_lines(ta, chunk) ==
    IF Len(chunk) = 1 /\ chunk[1] = <<>> THEN ta
    ELSE LET n == Len(chunk)
             p == ta.cursor
             after == lines_with(ta.lines, p, chunk)
             cur == IF n = 1 THEN <<p[1], p[2] + Len(chunk[1])>>
                    ELSE <<p[1] + n - 1, Len(chunk[n])>>
         IN  push_history([ta EXCEPT !.lines = after, !.cursor = cur],
                          ta.lines, p, after)

\* a line without its trailing '\r'
strip_cr(s) == IF s # <<>> /\ s[Len(s)] = CR THEN SubSeq(s, 1, Len(s) - 1) ELSE s

\* A faulty insert_str, which inserts the string as one line.
insert_str_unsplit(ta, s) == insert_lines(delete_selection(ta, FALSE), <<s>>)

\* TextArea::insert_str: the string is split at '\n'
insert_str(ta, s) ==
    LET parts == split(s, NL)
        chunk == [i \in 1..Len(parts) |-> strip_cr(parts[i])]
    IN  insert_lines(delete_selection(ta, FALSE), chunk)

\* TextArea::paste
paste(ta) == insert_lines(delete_selection(ta, FALSE), ta.yank)

\* TextArea::insert_newline
insert_newline(ta) ==
    LET t == delete_selection(ta, FALSE)
        p == t.cursor
        after == lines_with(t.lines, p, << <<>>, <<>> >>)
    IN  push_history([t EXCEPT !.lines = after, !.cursor = <<p[1] + 1, 0>>],
                     t.lines, p, after)

\* TextArea::insert_char
insert_char(ta, c) ==
    IF c = NL \/ c = CR THEN insert_newline(ta)
    ELSE LET t == delete_selection(ta, FALSE)
             p == t.cursor
             after == lines_with(t.lines, p, << <<c>> >>)
         IN  push_history([t EXCEPT !.lines = after, !.cursor = <<p[1], p[2] + 1>>],
                          t.lines, p, after)

\* TextArea::delete_newline: joins the cursor's line to the one above
delete_newline(ta) ==
    LET row == ta.cursor[1] IN
    IF row = 0 THEN ta
    ELSE LET p == <<row - 1, line_len(ta.lines, row - 1)>>
             after == lines_without(ta.lines, p, <<row, 0>>)
         IN  push_history([ta EXCEPT !.lines = after, !.cursor = p],
                          ta.lines, <<row, 0>>, after)

\* TextArea::delete_line_by_head: the text from the head of the line to the
\* cursor goes to the register; at the head of a line the line break before
\* it is deleted instead
delete_line_by_head(ta) ==
    LET t == delete_selection(ta, FALSE) IN
    IF t.history # ta.history THEN t
    ELSE IF t.cursor[2] = 0 THEN delete_newline(t)
    ELSE LET p == t.cursor
             after == lines_without(t.lines, <<p[1], 0>>, p)
         IN  push_history(
                 [t EXCEPT !.lines = after, !.cursor = <<p[1], 0>>,
                           !.yank = text_between(t.lines, <<p[1], 0>>, p)],
                 t.lines, p, after)

\* TextArea::undo
undo(ta) ==
    IF ta.hidx = 0 THEN ta
    ELSE LET edit == ta.history[ta.hidx]
         IN  [cancel_selection(ta) EXCEPT !.lines = edit.lines_before,
                                          !.cursor = edit.before,
                                          !.hidx = ta.hidx - 1]

\* TextArea::redo
redo(ta) ==
    IF ta.hidx = Len(ta.history) THEN ta
    ELSE LET edit == ta.history[ta.hidx + 1]
         IN  [cancel_selection(ta) EXCEPT !.lines = edit.lines_after,
                                          !.cursor = edit.after,
                                          !.hidx = ta.hidx + 1]

(***************************************************************************)
(* UTF-8 and standard base64, on bytes.                                    *)
(***************************************************************************)
\* the UTF-8 bytes of one character
utf8_char(c) ==
    IF c < 128 THEN <<c>>
    ELSE IF c < 2048 THEN <<192 + (c \div 64), 128 + (c % 64)>>
    ELSE IF c < 65536
    THEN <<224 + (c \div 4096), 128 + ((c \div 64) % 64), 128 + (c % 64)>>
    ELSE <<240 + (c \div 262144), 128 + ((c \div 4096) % 64),
           128 + ((c \div 64) % 64), 128 + (c % 64)>>

\* String::as_bytes
as_bytes(s) == Flatten([i \in 1..Len(s) |-> utf8_char(s[i])])

is_cont(b) == b \in 128..191

\* how many bytes the UTF-8 sequence that starts bs takes, 0 when bs starts
\* with no well-formed sequence (overlong forms, surrogates and code points
\* past U+10FFFF are ill-formed)
utf8_width(bs) ==
    LET n == Len(bs)
        b1 == bs[1]
    IN  IF b1 < 128 THEN 1
        ELSE IF b1 \in 194..223
        THEN IF n >= 2 /\ is_cont(bs[2]) THEN 2 ELSE 0
        ELSE IF b1 \in 224..239
        THEN IF /\ n >= 3
                /\ is_cont(bs[2])
                /\ is_cont(bs[3])
                /\ (b1 = 224 => bs[2] >= 160)
                /\ (b1 = 237 => bs[2] <= 159)
             THEN 3 ELSE 0
        ELSE IF b1 \in 240..244
        THEN IF /\ n >= 4
                /\ is_cont(bs[2])
                /\ is_cont(bs[3])
                /\ is_cont(bs[4])
                /\ (b1 = 240 => bs[2] >= 144)
                /\ (b1 = 244 => bs[2] <= 143)
             THEN 4 ELSE 0
        ELSE 0

\* the character a well-formed sequence of w bytes at the head of bs encodes
utf8_scalar(bs, w) ==
    CASE w = 1 -> bs[1]
      [] w = 2 -> (bs[1] - 192) * 64 + (bs[2] - 128)
      [] w = 3 -> (bs[1] - 224) * 4096 + (bs[2] - 128) * 64 + (bs[3] - 128)
      [] w = 4 -> (bs[1] - 240) * 262144 + (bs[2] - 128) * 4096
                  + (bs[3] - 128) * 64 + (bs[4] - 128)

RECURSIVE from_utf8(_)
\* String::from_utf8: [ok, value]
from_utf8(bs) ==
    IF bs = <<>> THEN [ok |-> TRUE, value |-> <<>>]
    ELSE LET w == utf8_width(bs) IN
         IF w = 0 THEN [ok |-> FALSE, value |-> <<>>]
         ELSE LET rest == from_utf8(SubSeq(bs, w + 1, Len(bs)))
              IN  [ok |-> rest.ok,
                   value |-> IF rest.ok THEN <<utf8_scalar(bs, w)>> \o rest.value
                             ELSE <<>>]

\* the standard alphabet: A-Z a-z 0-9 + /
b64_symbol(i) ==
    IF i < 26 THEN 65 + i
    ELSE IF i < 52 THEN 97 + (i - 26)
    ELSE IF i < 62 THEN 48 + (i - 52)
    ELSE IF i = 62 THEN 43
    ELSE 47

\* the value of a symbol of the alphabet, -1 for any other byte
b64_value(b) ==
    IF b \in 65..90 THEN b - 65
    ELSE IF b \in 97..122 THEN b - 97 + 26
    ELSE IF b \in 48..57 THEN b - 48 + 52
    ELSE IF b = 43 THEN 62
    ELSE IF b = 47 THEN 63
    ELSE -1

PAD == Ord["="]

RECURSIVE b64_encode_bytes(_)
b64_encode_bytes(bs) ==
    LET n == Len(bs) IN
    IF n = 0 THEN <<>>
    ELSE IF n = 1
    THEN <<b64_symbol(bs[1] \div 4), b64_symbol((bs[1] % 4) * 16), PAD, PAD>>
    ELSE IF n = 2
    THEN <<b64_symbol(bs[1] \div 4),
           b64_symbol((bs[1] % 4) * 16 + (bs[2] \div 16)),
           b64_symbol((bs[2] % 16) * 4), PAD>>
    ELSE <<b64_symbol(bs[1] \div 4),
           b64_symbol((bs[1] % 4) * 16 + (bs[2] \div 16)),
           b64_symbol((bs[2] % 16) * 4 + (bs[3] \div 64)),
           b64_symbol(bs[3] % 64)>>
         \o b64_encode_bytes(SubSeq(bs, 4, n))

\* BASE64_STANDARD.encode(text): the encoding is ASCII, so it is a String
b64_encode(text) == b64_encode_bytes(as_bytes(text))

\* the bytes of one group of four symbols, the last `pad` of them padding
b64_quad(q, pad) ==
    LET v1 == b64_value(q[1])
        v2 == b64_value(q[2])
        v3 == b64_value(q[3])
        v4 == b64_value(q[4])
    IN  CASE pad = 0 -> <<v1 * 4 + (v2 \div 16), (v2 % 16) * 16 + (v3 \div 4),
                          (v3 % 4) * 64 + v4>>
          [] pad = 1 -> <<v1 * 4 + (v2 \div 16), (v2 % 16) * 16 + (v3 \div 4)>>
          [] pad = 2 -> <<v1 * 4 + (v2 \div 16)>>

\* BASE64_STANDARD.decode(text): [ok, value].  The length is a multiple of
\* four, padding is '=' or '==' at the very end, every other byte is of the
\* alphabet, and the bits the padding leaves unused are zero.
b64_decode(text) ==
    LET bs == as_bytes(text)
        n == Len(bs)
        pad == IF n >= 2 /\ bs[n] = PAD /\ bs[n - 1] = PAD THEN 2
               ELSE IF n >= 1 /\ bs[n] = PAD THEN 1
               ELSE 0
        valid ==
            /\ n % 4 = 0
            /\ \A i \in 1..(n - pad) : b64_value(bs[i]) >= 0
            /\ (pad = 1 => b64_value(bs[n - 1]) % 4 = 0)
            /\ (pad = 2 => b64_value(bs[n - 2]) % 16 = 0)
        quads == [k \in 1..(n \div 4) |->
                    b64_quad(SubSeq(bs, 4 * k - 3, 4 * k),
                             IF k = n \div 4 THEN pad ELSE 0)]
    IN  IF valid THEN [ok |-> TRUE, value |-> Flatten(quads)]
        ELSE [ok |-> FALSE, value |-> <<>>]

(***************************************************************************)
(* JSON.  json_valid is the JSON grammar (RFC 8259); json_format is the    *)
(* streaming pretty-printer behind jsonxf::pretty_print, which indents by  *)
(* the structural characters it meets and does not parse.                  *)
(***************************************************************************)
DQUOTE == Ord["dquote"]
BACKSLASH == Ord["backslash"]

json_ws(c) == c \in {Ord[" "], NL, CR, TAB}
is_digit(c) == c \in 48..57
is_hex(c) == is_digit(c) \/ c \in 65..70 \/ c \in 97..102

\* s[i], or -1 past the end
at(s, i) == IF i >= 1 /\ i <= Len(s) THEN s[i] ELSE -1

RECURSIVE json_skip_ws(_, _)
\* the index of the first character at or after i that is no JSON whitespace
json_skip_ws(s, i) == IF json_ws(at(s, i)) THEN json_skip_ws(s, i + 1) ELSE i

RECURSIVE json_digits(_, _)
\* the index after the run of digits that starts at i
json_digits(s, i) == IF is_digit(at(s, i)) THEN json_digits(s, i + 1) ELSE i

\* the index after the number that starts at i, 0 when there is none
json_number(s, i) ==
    LET i1 == IF at(s, i) = Ord["-"] THEN i + 1 ELSE i
        i2 == IF at(s, i1) = Ord["0"] THEN i1 + 1 ELSE json_digits(s, i1)
        i3 == IF at(s, i2) = Ord["."] THEN json_digits(s, i2 + 1) ELSE i2
        e1 == IF at(s, i3) \in {Ord["e"], Ord["E"]} THEN i3 + 1 ELSE i3
        e2 == IF e1 > i3 /\ at(s, e1) \in {Ord["+"], Ord["-"]} THEN e1 + 1 ELSE e1
        i4 == IF e1 > i3 THEN json_digits(s, e2) ELSE i3
    IN  IF i2 = i1 THEN 0
        ELSE IF at(s, i2) = Ord["."] /\ i3 = i2 + 1 THEN 0
        ELSE IF e1 > i3 /\ i4 = e2 THEN 0
        ELSE i4

RECURSIVE json_string_tail(_, _)
\* the index after the closing quote of the string whose body starts at i
json_string_tail(s, i) ==
    LET c == at(s, i) IN
    IF c = -1 \/ (c >= 0 /\ c < 32) THEN 0
    ELSE IF c = DQUOTE THEN i + 1
    ELSE IF c = BACKSLASH
    THEN LET d == at(s, i + 1) IN
         IF d \in {DQUOTE, BACKSLASH, Ord["/"], Ord["b"], Ord["f"], Ord["n"],
                   Ord["r"], Ord["t"]}
         THEN json_string_tail(s, i + 2)
         ELSE IF d = Ord["u"] /\ \A k \in 2..5 : is_hex(at(s, i + k))
         THEN json_string_tail(s, i + 6)
         ELSE 0
    ELSE json_string_tail(s, i + 1)

\* the index after the literal `word` at i, 0 when it is not there
json_literal(s, i, word) ==
    IF SubSeq(s, i, Min(Len(s), i + Len(word) - 1)) = word THEN i + Len(word) ELSE 0

RECURSIVE json_value(_, _)
RECURSIVE json_elements(_, _)
RECURSIVE json_members(_, _)

\* the index after the elements and the closing bracket, the first at i
json_elements(s, i) ==
    LET j == json_value(s, i)
        k == IF j = 0 THEN 0 ELSE json_skip_ws(s, j)
    IN  IF j = 0 THEN 0
        ELSE IF at(s, k) = Ord["]"] THEN k + 1
        ELSE IF at(s, k) = Ord[","] THEN json_elements(s, json_skip_ws(s, k + 1))
        ELSE 0

\* the index after the members and the closing brace, the first at i
json_members(s, i) ==
    LET j == IF at(s, i) = DQUOTE THEN json_string_tail(s, i + 1) ELSE 0
        k == IF j = 0 THEN 0 ELSE json_skip_ws(s, j)
        v == IF j # 0 /\ at(s, k) = Ord[":"]
             THEN json_value(s, json_skip_ws(s, k + 1)) ELSE 0
        m == IF v = 0 THEN 0 ELSE json_skip_ws(s, v)
    IN  IF v = 0 THEN 0
        ELSE IF at(s, m) = Ord["}"] THEN m + 1
        ELSE IF at(s, m) = Ord[","] THEN json_members(s, json_skip_ws(s, m + 1))
        ELSE 0

\* the index after the value that starts at i, 0 when there is none
json_value(s, i) ==
    LET c == at(s, i) IN
    IF c = DQUOTE THEN json_string_tail(s, i + 1)
    ELSE IF c = Ord["["]
    THEN LET j == json_skip_ws(s, i + 1)
         IN  IF at(s, j) = Ord["]"] THEN j + 1 ELSE json_elements(s, j)
    ELSE IF c = Ord["{"]
    THEN LET j == json_skip_ws(s, i + 1)
         IN  IF at(s, j) = Ord["}"] THEN j + 1 ELSE json_members(s, j)
    ELSE IF c = Ord["t"] THEN json_literal(s, i, Str(<<"t", "r", "u", "e">>))
    ELSE IF c = Ord["f"] THEN json_literal(s, i, Str(<<"f", "a", "l", "s", "e">>))
    ELSE IF c = Ord["n"] THEN json_literal(s, i, Str(<<"n", "u", "l", "l">>))
    ELSE json_number(s, i)

\* whether the text is one JSON value, whitespace around it allowed
json_valid(s) ==
    LET j == json_value(s, json_skip_ws(s, 1))
    IN  j # 0 /\ json_skip_ws(s, j) = Len(s) + 1

\* n copies of the two-space indent
json_indent(n) == [i \in 1..(2 * n) |-> Ord[" "]]

RECURSIVE json_format_from(_, _, _)
\* the formatter's output from character i on, in state st = [depth,
\* in_string, in_backslash, empty, first]
json_format_from(s, i, st) ==
    IF i > Len(s) THEN <<>>
    ELSE
    LET c == s[i]
        sep == <<NL>> \o json_indent(st.depth)
    IN
    IF st.in_string
    THEN <<c>> \o json_format_from(s, i + 1,
            IF st.in_backslash THEN [st EXCEPT !.in_backslash = FALSE]
            ELSE IF c = BACKSLASH THEN [st EXCEPT !.in_backslash = TRUE]
            ELSE IF c = DQUOTE THEN [st EXCEPT !.in_string = FALSE]
            ELSE st)
    ELSE IF json_ws(c) THEN json_format_from(s, i + 1, st)
    ELSE IF c \in {Ord["["], Ord["{"]}
    THEN (IF st.first THEN <<c>>
          ELSE IF st.empty THEN sep \o <<c>>
          ELSE IF st.depth = 0 THEN <<NL, c>>
          ELSE <<c>>)
         \o json_format_from(s, i + 1,
                [st EXCEPT !.first = FALSE, !.depth = st.depth + 1, !.empty = TRUE])
    ELSE IF c \in {Ord["]"], Ord["}"]}
    THEN LET d == IF st.depth > 0 THEN st.depth - 1 ELSE 0
         IN  (IF st.empty THEN <<c>> ELSE <<NL>> \o json_indent(d) \o <<c>>)
             \o json_format_from(s, i + 1, [st EXCEPT !.depth = d, !.empty = FALSE])
    ELSE IF c = Ord[","] THEN <<c>> \o sep \o json_format_from(s, i + 1, st)
    ELSE IF c = Ord[":"] THEN <<c, Ord[" "]>> \o json_format_from(s, i + 1, st)
    ELSE (IF st.empty THEN sep \o <<c>> ELSE <<c>>)
         \o json_format_from(s, i + 1,
                [st EXCEPT !.empty = FALSE, !.in_string = (c = DQUOTE)])

\* the pretty-printed text
json_format(s) ==
    json_format_from(s, 1, [depth |-> 0, in_string |-> FALSE,
                            in_backslash |-> FALSE, empty |-> FALSE, first |-> TRUE])

\* jsonxf::pretty_print(&text): the Results it may return.  Text that is JSON
\* is formatted.  What the library does with text that is not JSON is not
\* in this repository: it may format what it reads, or return Err.
pretty_print(text) ==
    {[ok |-> TRUE, value |-> json_format(text)]}
    \cup (IF json_valid(text) THEN {} ELSE {[ok |-> FALSE, value |-> <<>>]})

(***************************************************************************)
(* Terminal events (crossterm::event::Event).  A key event has a code, a   *)
(* kind and modifiers; of the modifiers only Ctrl is kept.                 *)
(***************************************************************************)
KeyEsc == [tag |-> "Esc", c |-> 0]
KeyEnter == [tag |-> "Enter", c |-> 0]
Char(s) == [tag |-> "Char", c |-> Ord[s]]

Key(code, kind, ctrl) == [type |-> "Key", code |-> code, kind |-> kind, ctrl |-> ctrl]
Press(code) == Key(code, "Press", FALSE)
Repeat(code) == Key(code, "Repeat", FALSE)
Release(code) == Key(code, "Release", FALSE)

\* an event that is no key event (Event::Resize, FocusGained, Mouse, Paste)
Resize == [type |-> "Resize", code |-> KeyEsc, kind |-> "Press", ctrl |-> FALSE]

\* what `event_kind` records of an event
kind_of(ev) == IF ev.type = "Key" THEN ev.kind ELSE "NotKey"

\* a match pattern KeyEvent { code: KeyCode::Char(c) | ..., kind: k | ..., .. }
is_char(ev, chars, kinds) ==
    /\ ev.code.tag = "Char"
    /\ ev.code.c \in {Ord[x] : x \in chars}
    /\ ev.kind \in kinds

\* a match pattern KeyEvent { code: KeyCode::Esc or Enter, kind: Press, .. }
is_key(ev, code) == ev.code = code /\ ev.kind = "Press"

\* A faulty TextArea::input, which acts on a release as on a press.
input_any_kind(ta, ev) ==
    IF ev.code.tag = "Enter" THEN insert_newline(ta)
    ELSE IF ev.code.tag = "Char" /\ ev.ctrl /\ ev.code.c = Ord["m"]
    THEN insert_newline(ta)
    ELSE IF ev.code.tag = "Char" /\ ~ev.ctrl THEN insert_char(ta, ev.code.c)
    ELSE ta

\* TextArea::input(event), for the keys the environment offers: a release
\* is Input::default(), which no binding matches; Enter and Ctrl+M break
\* the line; a character without Ctrl is inserted; Esc is bound to nothing
input(ta, ev) ==
    IF ev.kind = "Release" THEN ta
    ELSE IF ev.code.tag = "Enter" THEN insert_newline(ta)
    ELSE IF ev.code.tag = "Char" /\ ev.ctrl /\ ev.code.c = Ord["m"]
    THEN insert_newline(ta)
    ELSE IF ev.code.tag = "Char" /\ ~ev.ctrl THEN insert_char(ta, ev.code.c)
    ELSE ta

(***************************************************************************)
(* The application state                                                   *)
(***************************************************************************)
\* enum Mode and enum VisualType
Insert == [tag |-> "Insert", visual |-> "-"]
Normal == [tag |-> "Normal", visual |-> "-"]
Command == [tag |-> "Command", visual |-> "-"]
Visual(k) == [tag |-> "Visual", visual |-> k]
\* A faulty VisualType::default(), which is Line.
VisualType_line == "Line"
VisualType_default == "Character"
Mode_default == Insert

NoError == [kind |-> "none", line |-> <<>>]
\* bail!("more lines than expected in commandline")
MoreLines == [kind |-> "more lines than expected in commandline", line |-> <<>>]
\* bail!("unknown command: {}", line)
UnknownCommand(line) == [kind |-> "unknown command", line |-> line]
\* the DecodeError of BASE64_STANDARD.decode(text)?
DecodeError == [kind |-> "base64 decode error", line |-> <<>>]
\* the FromUtf8Error of String::from_utf8(decoded)?
Utf8Error == [kind |-> "invalid utf-8", line |-> <<>>]
\* the panic of Result::unwrap on an Err
UnwrapPanic == [kind |-> "called Result::unwrap() on an Err value", line |-> <<>>]

\* The command buffer as the application can observe it.  The widget also
\* keeps a yank register and an undo history for the command line; main.rs
\* never reads them and the environment offers none of the widget's own
\* chords for them, so they are kept at their defaults.
observed(ta) == [ta EXCEPT !.yank = TextArea_default.yank, !.history = <<>>, !.hidx = 0]

\* impl Default for App
Init ==
    /\ should_exit = FALSE
    /\ mode = Mode_default
    /\ editor = TextArea_default
    /\ commandline = TextArea_default
    /\ status = "running"
    /\ error = NoError
    /\ event_kind = "None"

(***************************************************************************)
(* App::parse_command: the outcomes [editor, should_exit, result], where   *)
(* result is NoError for Ok(()), the error for Err, UnwrapPanic for a      *)
(* panic.                                                                  *)
(***************************************************************************)
Outcome(ed, se, res) == [editor |-> ed, should_exit |-> se, result |-> res]

\* "json" "format"
json_format_command(ed, se) ==
    LET ugly_json == join(lines_of(ed), <<NL>>)
        cleared == cut(select_all(ed))
    IN  {IF r.ok THEN Outcome(insert_str(cleared, r.value), se, NoError)
         ELSE Outcome(cleared, se, UnwrapPanic) : r \in pretty_print(ugly_json)}

\* "base64" "encode"
base64_encode_command(ed, se) ==
    LET text == join(lines_of(ed), <<NL>>)
        cleared == cut(select_all(ed))
    IN  {Outcome(insert_str(cleared, b64_encode(text)), se, NoError)}

\* "base64" "decode"
base64_decode_command(ed, se) ==
    LET text == join(lines_of(ed), <<NL>>)
        cleared == cut(select_all(ed))
        decoded == b64_decode(text)
        string == from_utf8(decoded.value)
    IN  IF ~decoded.ok THEN {Outcome(cleared, se, DecodeError)}
        ELSE IF ~string.ok THEN {Outcome(cleared, se, Utf8Error)}
        ELSE {Outcome(insert_str(cleared, string.value), se, NoError)}

\* A faulty match, which takes a line without a verb for no command at all.
parse_line_blank_ok(ed, line, se) ==
    LET verb == nth_token(line, 0)
        arg == nth_token(line, 1)
    IN  IF verb = <<>> THEN {Outcome(ed, se, NoError)}
        ELSE IF verb = Str(<<"q">>) THEN {Outcome(ed, TRUE, NoError)}
        ELSE IF verb = Str(<<"j", "s", "o", "n">>)
        THEN IF arg = Str(<<"f", "o", "r", "m", "a", "t">>)
             THEN json_format_command(ed, se)
             ELSE {Outcome(ed, se, UnknownCommand(line))}
        ELSE IF verb = Str(<<"b", "a", "s", "e", "6", "4">>)
        THEN IF arg = Str(<<"e", "n", "c", "o", "d", "e">>)
             THEN base64_encode_command(ed, se)
             ELSE IF arg = Str(<<"d", "e", "c", "o", "d", "e">>)
             THEN base64_decode_command(ed, se)
             ELSE {Outcome(ed, se, UnknownCommand(line))}
        ELSE {Outcome(ed, se, UnknownCommand(line))}

\* `match line.as_str().split_whitespace().next().unwrap_or_default()`
parse_line(ed, line, se) ==
    LET verb == nth_token(line, 0)
        arg == nth_token(line, 1)
    IN  IF verb = Str(<<"q">>) THEN {Outcome(ed, TRUE, NoError)}
        ELSE IF verb = Str(<<"j", "s", "o", "n">>)
        THEN IF arg = Str(<<"f", "o", "r", "m", "a", "t">>)
             THEN json_format_command(ed, se)
             ELSE {Outcome(ed, se, UnknownCommand(line))}
        ELSE IF verb = Str(<<"b", "a", "s", "e", "6", "4">>)
        THEN IF arg = Str(<<"e", "n", "c", "o", "d", "e">>)
             THEN base64_encode_command(ed, se)
             ELSE IF arg = Str(<<"d", "e", "c", "o", "d", "e">>)
             THEN base64_decode_command(ed, se)
             ELSE {Outcome(ed, se, UnknownCommand(line))}
        ELSE {Outcome(ed, se, UnknownCommand(line))}

\* A faulty parse_command, which does not look at the number of lines.
parse_command_first_line(ed, cl, se) == parse_line(ed, lines_of(cl)[1], se)

parse_command(ed, cl, se) ==
    LET lines == lines_of(cl)
    IN  IF Len(lines) > 1 THEN {Outcome(ed, se, MoreLines)}
        ELSE parse_line(ed, lines[1], se)

(***************************************************************************)
(* The environment: the events the terminal delivers.  Every event below   *)
(* is one the terminal can deliver in the state it is offered in; the      *)
(* conditions only keep the exploration finite.                            *)
(***************************************************************************)
\* the characters typed into the document
DocChars == {"1", "V"}
\* the keys the modes bind, and one they do not
BoundChars ==
    {"i", "a", "v", ";", " ", "p", "h", "j", "k", "l", "b", "w", "E", "0",
     "I", "A", "o", "O", "u", "U", "y", "d", "c"}
UnboundChars == {"z"}
\* the command lines typed, each up to any of its prefixes
CmdTexts ==
    {Str(<<"q", " ", "x">>),
     Str(<<" ", "q">>),
     Str(<<"x">>),
     Str(<<"j", "s", "o", "n", " ", "f", "o", "r", "m", "a", "t", " ", "x">>),
     Str(<<"b", "a", "s", "e", "6", "4", " ", "e", "n", "c", "o", "d", "e", " ", "x">>),
     Str(<<"b", "a", "s", "e", "6", "4", " ", "d", "e", "c", "o", "d", "e">>),
     Str(<<"q">>) \o <<NL>> \o Str(<<"q">>),
     <<NL>>,
     Str(<<"j", "s", "o", "n", " ", "f", "o", "r", "m", "a", "t">>) \o <<NL>>}
CmdChars ==
    {"q", "x", " ", "j", "s", "o", "n", "f", "r", "m", "a", "t", "b", "e",
     "6", "4", "c", "d"}

\* the keys that are also held down and released
HeldCodes == {KeyEsc, KeyEnter, Char("1"), Char("l"), Char("q"), Char("z")}

Presses(chars) == {Press(Char(c)) : c \in chars}
CtrlM == Key(Char("m"), "Press", TRUE)

\* events no mode acts on
OddEvents == {Resize} \cup {Release(code) : code \in HeldCodes}

\* the number of characters of a buffer, line breaks included
text_len(ta) == Len(join(ta.lines, <<NL>>))

\* the position after the last character of a buffer
end_of(lines) == <<Len(lines) - 1, Len(lines[Len(lines)])>>

\* whether the editor is what it is after its text is typed into a new
\* one, character by character: each edit appended one character
straight(ta) ==
    LET text == join(ta.lines, <<NL>>) IN
    /\ ta.hidx = Len(ta.history)
    /\ Len(ta.history) = Len(text)
    /\ ta.cursor = end_of(ta.lines)
    /\ ta.selection_start = None
    /\ ta.yank = TextArea_default.yank
    /\ \A i \in 1..Len(text) :
          LET edit == ta.history[i] IN
          /\ join(edit.lines_before, <<NL>>) = SubSeq(text, 1, i - 1)
          /\ join(edit.lines_after, <<NL>>) = SubSeq(text, 1, i)
          /\ edit.before = end_of(edit.lines_before)
          /\ edit.after = end_of(edit.lines_after)

\* the most transform commands the environment issues on one document
MaxCommands == 2

\* the character a widget receives with the event: Enter and Ctrl+M break
\* the line
char_of(ev) == IF ev.code.tag = "Char" /\ ~ev.ctrl THEN ev.code.c ELSE NL

\* what the environment has typed of a command line part way through it
CmdPrefixes == UNION {{SubSeq(t, 1, n) : n \in 0..Len(t)} : t \in CmdTexts}

\* whether the text is a run of one character
uniform(text) == \A i \in 1..Len(text) : text[i] = text[1]

\* the number of edits in the undo history that emptied the document, as
\* the cut of a transform command does
transforms(ta) ==
    Cardinality({i \in 1..Len(ta.history) : ta.history[i].lines_after = << <<>> >>})

\* The events the environment delivers in the current state.  While the
\* document has seen fewer than MaxEdits edits it presses every key.  After
\* that it edits no more, except to type a run of one character straight
\* into a new document, and of the Normal mode keys it presses only the
\* command key, undo and redo.  It types a command line only at the end of
\* a run typed straight in or of a document transformed by commands, and
\* it runs at most MaxCommands transforms on a document.  While text is
\* left on the command line outside Command mode it only changes modes.
Offered ==
    LET edits == Len(editor.history)
        free == edits < MaxEdits
        deep == edits >= MaxEdits
        room == text_len(editor) < MaxText
        text == join(editor.lines, <<NL>>)
        cmd == join(commandline.lines, <<NL>>)
        calm == edits <= 1 /\ Len(cmd) <= 1
        fits == Len(text) + Len(join(editor.yank, <<NL>>)) <= MaxText
        leftover == cmd # <<>>
    IN
    (IF calm THEN OddEvents ELSE {})
    \cup
    CASE mode.tag = "Insert" ->
            {Press(KeyEsc)}
            \cup (IF leftover \/ ~room THEN {}
                  ELSE IF free
                  THEN {Press(KeyEnter)} \cup Presses(DocChars)
                       \cup (IF calm THEN {Repeat(Char("1"))} ELSE {})
                  ELSE IF straight(editor)
                  THEN {ev \in {Press(KeyEnter)} \cup Presses(DocChars) :
                           uniform(join(input(editor, ev).lines, <<NL>>))}
                  ELSE {})
      [] mode.tag = "Normal" ->
            IF leftover THEN Presses({";", "i"})
            ELSE IF deep
            THEN Presses({";", "U"})
                 \cup (IF edits - editor.hidx < 2 THEN Presses({"u"}) ELSE {})
            ELSE Presses((BoundChars \cup UnboundChars) \ {"o", "O", "p"})
                 \cup (IF free /\ room THEN Presses({"o", "O"}) ELSE {})
                 \cup (IF free /\ fits THEN Presses({"p"}) ELSE {})
                 \cup (IF calm THEN {Press(KeyEsc), Repeat(Char("l"))} ELSE {})
      [] mode.tag = "Visual" ->
            IF leftover THEN {Press(KeyEsc)}
            ELSE {Press(KeyEsc)}
                 \cup Presses((BoundChars \cup UnboundChars) \ {"d", "c"})
                 \cup (IF free THEN Presses({"d", "c"}) ELSE {})
                 \cup (IF calm THEN {Repeat(Char("l"))} ELSE {})
      [] mode.tag = "Command" ->
            {Press(KeyEsc)}
            \cup (IF Len(cmd) <= 3 \/ transforms(editor) < MaxCommands
                  THEN {Press(KeyEnter)} ELSE {})
            \cup (IF /\ editor.hidx = edits
                     /\ editor.cursor = end_of(editor.lines)
                     /\ (straight(editor) /\ uniform(text)) \/ transforms(editor) > 0
                     /\ transforms(editor) < MaxCommands
                  THEN {ev \in Presses(CmdChars) \cup {CtrlM, Repeat(KeyEnter)} :
                           Append(cmd, char_of(ev)) \in CmdPrefixes}
                  ELSE IF cmd = <<>> THEN Presses({"q", "x"})
                  ELSE {})

(***************************************************************************)
(* App::run, App::handle_events and App::handle_keyevent.  One loop        *)
(* iteration is one action: the loop condition, the read of an event and   *)
(* its dispatch (update and render_frame only set styles and draw).  There *)
(* is one action per match arm; an arm is taken when its pattern matches   *)
(* and no arm before it does.                                              *)
(***************************************************************************)
PressOnly == {"Press"}
PressOrRepeat == {"Press", "Repeat"}

\* `while !self.should_exit`, then crossterm::event::read() returns ev
reads(ev) ==
    /\ status = "running"
    /\ ~should_exit
    /\ event_kind' = kind_of(ev)

\* handle_events matches Event::Key(key) and handle_keyevent matches the mode
in_mode(ev, tag) == ev.type = "Key" /\ mode.tag = tag /\ reads(ev)

\* handle_keyevent returns Ok(()), so does handle_events, and run loops
returns_ok == status' = "running" /\ error' = error

\* handle_events: `_ => Ok(())`
handle_events_other(ev) ==
    /\ reads(ev)
    /\ ev.type # "Key"
    /\ UNCHANGED <<mode, editor, commandline, should_exit>>
    /\ returns_ok

\* run: the loop condition fails, run returns Ok(())
run_exit ==
    /\ status = "running"
    /\ should_exit
    /\ status' = "exited"
    /\ UNCHANGED <<mode, editor, commandline, should_exit, error, event_kind>>

Insert_Esc(ev) ==
    /\ in_mode(ev, "Insert")
    /\ is_key(ev, KeyEsc)
    /\ mode' = Normal
    /\ UNCHANGED <<editor, commandline, should_exit>>
    /\ returns_ok

\* `input => _ = self.editor.input(input)`
Insert_input(ev) ==
    /\ in_mode(ev, "Insert")
    /\ ~is_key(ev, KeyEsc)
    /\ editor' = input(editor, ev)
    /\ UNCHANGED <<mode, commandline, should_exit>>
    /\ returns_ok

Normal_u(ev) ==
    /\ in_mode(ev, "Normal")
    /\ is_char(ev, {"u"}, PressOrRepeat)
    /\ editor' = undo(editor)
    /\ UNCHANGED <<mode, commandline, should_exit>>
    /\ returns_ok

Normal_U(ev) ==
    /\ in_mode(ev, "Normal")
    /\ is_char(ev, {"U"}, PressOrRepeat)
    /\ editor' = redo(editor)
    /\ UNCHANGED <<mode, commandline, should_exit>>
    /\ returns_ok

\* A faulty `i` arm, which moves the cursor as `a` does.
Normal_i_moves(ev) ==
    /\ in_mode(ev, "Normal")
    /\ is_char(ev, {"i"}, PressOnly)
    /\ editor' = move_cursor(editor, "Forward")
    /\ mode' = Insert
    /\ UNCHANGED <<commandline, should_exit>>
    /\ returns_ok

Normal_i(ev) ==
    /\ in_mode(ev, "Normal")
    /\ is_char(ev, {"i"}, PressOnly)
    /\ mode' = Insert
    /\ UNCHANGED <<editor, commandline, should_exit>>
    /\ returns_ok

Normal_a(ev) ==
    /\ in_mode(ev, "Normal")
    /\ is_char(ev, {"a"}, PressOnly)
    /\ editor' = move_cursor(editor, "Forward")
    /\ mode' = Insert
    /\ UNCHANGED <<commandline, should_exit>>
    /\ returns_ok

Normal_v(ev) ==
    /\ in_mode(ev, "Normal")
    /\ is_char(ev, {"v"}, PressOnly)
    /\ editor' = start_selection(editor)
    /\ mode' = Visual(VisualType_default)
    /\ UNCHANGED <<commandline, should_exit>>
    /\ returns_ok

\* A faulty `;` arm, which enters Insert mode.
Normal_command_to_insert(ev) ==
    /\ in_mode(ev, "Normal")
    /\ is_char(ev, {";", " "}, PressOnly)
    /\ mode' = Insert
    /\ UNCHANGED <<editor, commandline, should_exit>>
    /\ returns_ok

Normal_command(ev) ==
    /\ in_mode(ev, "Normal")
    /\ is_char(ev, {";", " "}, PressOnly)
    /\ mode' = Command
    /\ UNCHANGED <<editor, commandline, should_exit>>
    /\ returns_ok

Normal_p(ev) ==
    /\ in_mode(ev, "Normal")
    /\ is_char(ev, {"p"}, PressOnly)
    /\ editor' = paste(editor)
    /\ UNCHANGED <<mode, commandline, should_exit>>
    /\ returns_ok

Normal_h(ev) ==
    /\ in_mode(ev, "Normal")
    /\ is_char(ev, {"h"}, PressOrRepeat)
    /\ editor' = move_cursor(editor, "Back")
    /\ UNCHANGED <<mode, commandline, should_exit>>
    /\ returns_ok

Normal_j(ev) ==
    /\ in_mode(ev, "Normal")
    /\ is_char(ev, {"j"}, PressOrRepeat)
    /\ editor' = move_cursor(editor, "Down")
    /\ UNCHANGED <<mode, commandline, should_exit>>
    /\ returns_ok

Normal_k(ev) ==
    /\ in_mode(ev, "Normal")
    /\ is_char(ev, {"k"}, PressOrRepeat)
    /\ editor' = move_cursor(editor, "Up")
    /\ UNCHANGED <<mode, commandline, should_exit>>
    /\ returns_ok

Normal_l(ev) ==
    /\ in_mode(ev, "Normal")
    /\ is_char(ev, {"l"}, PressOrRepeat)
    /\ editor' = move_cursor(editor, "Forward")
    /\ UNCHANGED <<mode, commandline, should_exit>>
    /\ returns_ok

Normal_b(ev) ==
    /\ in_mode(ev, "Normal")
    /\ is_char(ev, {"b"}, PressOrRepeat)
    /\ editor' = move_cursor(editor, "WordBack")
    /\ UNCHANGED <<mode, commandline, should_exit>>
    /\ returns_ok

Normal_w(ev) ==
    /\ in_mode(ev, "Normal")
    /\ is_char(ev, {"w"}, PressOrRepeat)
    /\ editor' = move_cursor(editor, "WordForward")
    /\ UNCHANGED <<mode, commandline, should_exit>>
    /\ returns_ok

Normal_E(ev) ==
    /\ in_mode(ev, "Normal")
    /\ is_char(ev, {"E"}, PressOnly)
    /\ editor' = move_cursor(editor, "End")
    /\ UNCHANGED <<mode, commandline, should_exit>>
    /\ returns_ok

Normal_zero(ev) ==
    /\ in_mode(ev, "Normal")
    /\ is_char(ev, {"0"}, PressOnly)
    /\ editor' = move_cursor(editor, "Head")
    /\ UNCHANGED <<mode, commandline, should_exit>>
    /\ returns_ok

Normal_I(ev) ==
    /\ in_mode(ev, "Normal")
    /\ is_char(ev, {"I"}, PressOnly)
    /\ editor' = move_cursor(editor, "Head")
    /\ mode' = Insert
    /\ UNCHANGED <<commandline, should_exit>>
    /\ returns_ok

Normal_A(ev) ==
    /\ in_mode(ev, "Normal")
    /\ is_char(ev, {"A"}, PressOnly)
    /\ editor' = move_cursor(editor, "End")
    /\ mode' = Insert
    /\ UNCHANGED <<commandline, should_exit>>
    /\ returns_ok

Normal_o(ev) ==
    /\ in_mode(ev, "Normal")
    /\ is_char(ev, {"o"}, PressOnly)
    /\ editor' = insert_newline(move_cursor(editor, "End"))
    /\ mode' = Insert
    /\ UNCHANGED <<commandline, should_exit>>
    /\ returns_ok

Normal_O(ev) ==
    /\ in_mode(ev, "Normal")
    /\ is_char(ev, {"O"}, PressOnly)
    /\ editor' = insert_newline(move_cursor(move_cursor(editor, "Up"), "End"))
    /\ mode' = Insert
    /\ UNCHANGED <<commandline, should_exit>>
    /\ returns_ok

\* the key events an arm of Mode::Normal matches
normal_bound(ev) ==
    \/ is_char(ev, {"u", "U", "h", "j", "k", "l", "b", "w"}, PressOrRepeat)
    \/ is_char(ev, {"i", "a", "v", ";", " ", "p", "E", "0", "I", "A", "o", "O"}, PressOnly)

\* `_ => {}`
Normal_other(ev) ==
    /\ in_mode(ev, "Normal")
    /\ ~normal_bound(ev)
    /\ UNCHANGED <<mode, editor, commandline, should_exit>>
    /\ returns_ok

\* Clear the buffer: move_cursor(CursorMove::End), then delete_line_by_head()
clear_commandline(cl) == observed(delete_line_by_head(move_cursor(cl, "End")))

\* A faulty Esc arm, which leaves the command line as it is.
Command_Esc_keeps(ev) ==
    /\ in_mode(ev, "Command")
    /\ is_key(ev, KeyEsc)
    /\ mode' = Normal
    /\ UNCHANGED <<editor, commandline, should_exit>>
    /\ returns_ok

\* A faulty Esc arm, which also asks the loop to exit.
Command_Esc_exits(ev) ==
    /\ in_mode(ev, "Command")
    /\ is_key(ev, KeyEsc)
    /\ commandline' = clear_commandline(commandline)
    /\ mode' = Normal
    /\ should_exit' = TRUE
    /\ UNCHANGED editor
    /\ returns_ok

Command_Esc(ev) ==
    /\ in_mode(ev, "Command")
    /\ is_key(ev, KeyEsc)
    /\ commandline' = clear_commandline(commandline)
    /\ mode' = Normal
    /\ UNCHANGED <<editor, should_exit>>
    /\ returns_ok

\* `self.parse_command()?` returns early on Err, before the buffer is
\* cleared and the mode set; a panic ends the process where it is raised
Command_Enter(ev) ==
    /\ in_mode(ev, "Command")
    /\ is_key(ev, KeyEnter)
    /\ \E out \in parse_command(editor, commandline, should_exit) :
          /\ editor' = out.editor
          /\ should_exit' = out.should_exit
          /\ commandline' =
                IF out.result = NoError THEN clear_commandline(commandline)
                ELSE commandline
          /\ mode' = IF out.result = NoError THEN Normal ELSE mode
          /\ status' =
                IF out.result = NoError THEN "running"
                ELSE IF out.result = UnwrapPanic THEN "panicked"
                ELSE "failed"
          /\ error' = IF out.result = NoError THEN error ELSE out.result

\* A faulty input arm, which gives the key to the main buffer.
Command_input_to_editor(ev) ==
    /\ in_mode(ev, "Command")
    /\ ~is_key(ev, KeyEsc)
    /\ ~is_key(ev, KeyEnter)
    /\ editor' = input(editor, ev)
    /\ UNCHANGED <<mode, commandline, should_exit>>
    /\ returns_ok

\* `input => _ = self.commandline.input(input)`
Command_input(ev) ==
    /\ in_mode(ev, "Command")
    /\ ~is_key(ev, KeyEsc)
    /\ ~is_key(ev, KeyEnter)
    /\ commandline' = observed(input(commandline, ev))
    /\ UNCHANGED <<mode, editor, should_exit>>
    /\ returns_ok

Visual_Esc(ev) ==
    /\ in_mode(ev, "Visual")
    /\ is_key(ev, KeyEsc)
    /\ editor' = cancel_selection(editor)
    /\ mode' = Normal
    /\ UNCHANGED <<commandline, should_exit>>
    /\ returns_ok

\* A faulty `y` arm, which cuts the selection.
Visual_y_cuts(ev) ==
    /\ in_mode(ev, "Visual")
    /\ is_char(ev, {"y"}, PressOnly)
    /\ editor' = cut(editor)
    /\ mode' = Normal
    /\ UNCHANGED <<commandline, should_exit>>
    /\ returns_ok

Visual_y(ev) ==
    /\ in_mode(ev, "Visual")
    /\ is_char(ev, {"y"}, PressOnly)
    /\ editor' = copy(editor)
    /\ mode' = Normal
    /\ UNCHANGED <<commandline, should_exit>>
    /\ returns_ok

Visual_d(ev) ==
    /\ in_mode(ev, "Visual")
    /\ is_char(ev, {"d"}, PressOnly)
    /\ editor' = cut(editor)
    /\ mode' = Normal
    /\ UNCHANGED <<commandline, should_exit>>
    /\ returns_ok

Visual_c(ev) ==
    /\ in_mode(ev, "Visual")
    /\ is_char(ev, {"c"}, PressOnly)
    /\ editor' = cut(editor)
    /\ mode' = Insert
    /\ UNCHANGED <<commandline, should_exit>>
    /\ returns_ok

\* `match visual_type`: only VisualType::Character moves the cursor
visual_move(ta, visual_type, m) ==
    IF visual_type = "Character" THEN move_cursor(ta, m) ELSE ta

Visual_h(ev) ==
    /\ in_mode(ev, "Visual")
    /\ is_char(ev, {"h"}, PressOnly)
    /\ editor' = visual_move(editor, mode.visual, "Back")
    /\ UNCHANGED <<mode, commandline, should_exit>>
    /\ returns_ok

Visual_j(ev) ==
    /\ in_mode(ev, "Visual")
    /\ is_char(ev, {"j"}, PressOnly)
    /\ editor' = visual_move(editor, mode.visual, "Down")
    /\ UNCHANGED <<mode, commandline, should_exit>>
    /\ returns_ok

Visual_k(ev) ==
    /\ in_mode(ev, "Visual")
    /\ is_char(ev, {"k"}, PressOnly)
    /\ editor' = visual_move(editor, mode.visual, "Up")
    /\ UNCHANGED <<mode, commandline, should_exit>>
    /\ returns_ok

Visual_l(ev) ==
    /\ in_mode(ev, "Visual")
    /\ is_char(ev, {"l"}, PressOnly)
    /\ editor' = visual_move(editor, mode.visual, "Forward")
    /\ UNCHANGED <<mode, commandline, should_exit>>
    /\ returns_ok

Visual_E(ev) ==
    /\ in_mode(ev, "Visual")
    /\ is_char(ev, {"E"}, PressOnly)
    /\ editor' = move_cursor(editor, "End")
    /\ UNCHANGED <<mode, commandline, should_exit>>
    /\ returns_ok

Visual_zero(ev) ==
    /\ in_mode(ev, "Visual")
    /\ is_char(ev, {"0"}, PressOnly)
    /\ editor' = move_cursor(editor, "Head")
    /\ UNCHANGED <<mode, commandline, should_exit>>
    /\ returns_ok

Visual_b(ev) ==
    /\ in_mode(ev, "Visual")
    /\ is_char(ev, {"b"}, PressOnly)
    /\ editor' = visual_move(editor, mode.visual, "WordBack")
    /\ UNCHANGED <<mode, commandline, should_exit>>
    /\ returns_ok

Visual_w(ev) ==
    /\ in_mode(ev, "Visual")
    /\ is_char(ev, {"w"}, PressOnly)
    /\ editor' = visual_move(editor, mode.visual, "WordForward")
    /\ UNCHANGED <<mode, commandline, should_exit>>
    /\ returns_ok

\* the key events an arm of Mode::Visual matches
visual_bound(ev) ==
    \/ is_key(ev, KeyEsc)
    \/ is_char(ev, {"y", "d", "c", "h", "j", "k", "l", "E", "0", "b", "w"}, PressOnly)

\* `_ => {}`
Visual_other(ev) ==
    /\ in_mode(ev, "Visual")
    /\ ~visual_bound(ev)
    /\ UNCHANGED <<mode, editor, commandline, should_exit>>
    /\ returns_ok

\* fn handle_keyevent: the arm that matches the mode and the event
handle_keyevent(ev) ==
    \/ Insert_Esc(ev)
    \/ Insert_input(ev)
    \/ Normal_u(ev)
    \/ Normal_U(ev)
    \/ Normal_i(ev)
    \/ Normal_a(ev)
    \/ Normal_v(ev)
    \/ Normal_command(ev)
    \/ Normal_p(ev)
    \/ Normal_h(ev)
    \/ Normal_j(ev)
    \/ Normal_k(ev)
    \/ Normal_l(ev)
    \/ Normal_b(ev)
    \/ Normal_w(ev)
    \/ Normal_E(ev)
    \/ Normal_zero(ev)
    \/ Normal_I(ev)
    \/ Normal_A(ev)
    \/ Normal_o(ev)
    \/ Normal_O(ev)
    \/ Normal_other(ev)
    \/ Command_Esc(ev)
    \/ Command_Enter(ev)
    \/ Command_input(ev)
    \/ Visual_Esc(ev)
    \/ Visual_y(ev)
    \/ Visual_d(ev)
    \/ Visual_c(ev)
    \/ Visual_h(ev)
    \/ Visual_j(ev)
    \/ Visual_k(ev)
    \/ Visual_l(ev)
    \/ Visual_E(ev)
    \/ Visual_zero(ev)
    \/ Visual_b(ev)
    \/ Visual_w(ev)
    \/ Visual_other(ev)

\* fn handle_events, from the read of ev on
handle_events(ev) == handle_events_other(ev) \/ handle_keyevent(ev)

Next ==
    \/ run_exit
    \/ \E ev \in Offered : handle_events_other(ev)
    \/ \E ev \in Offered : Insert_Esc(ev)
    \/ \E ev \in Offered : Insert_input(ev)
    \/ \E ev \in Offered : Normal_u(ev)
    \/ \E ev \in Offered : Normal_U(ev)
    \/ \E ev \in Offered : Normal_i(ev)
    \/ \E ev \in Offered : Normal_a(ev)
    \/ \E ev \in Offered : Normal_v(ev)
    \/ \E ev \in Offered : Normal_command(ev)
    \/ \E ev \in Offered : Normal_p(ev)
    \/ \E ev \in Offered : Normal_h(ev)
    \/ \E ev \in Offered : Normal_j(ev)
    \/ \E ev \in Offered : Normal_k(ev)
    \/ \E ev \in Offered : Normal_l(ev)
    \/ \E ev \in Offered : Normal_b(ev)
    \/ \E ev \in Offered : Normal_w(ev)
    \/ \E ev \in Offered : Normal_E(ev)
    \/ \E ev \in Offered : Normal_zero(ev)
    \/ \E ev \in Offered : Normal_I(ev)
    \/ \E ev \in Offered : Normal_A(ev)
    \/ \E ev \in Offered : Normal_o(ev)
    \/ \E ev \in Offered : Normal_O(ev)
    \/ \E ev \in Offered : Normal_other(ev)
    \/ \E ev \in Offered : Command_Esc(ev)
    \/ \E ev \in Offered : Command_Enter(ev)
    \/ \E ev \in Offered : Command_input(ev)
    \/ \E ev \in Offered : Visual_Esc(ev)
    \/ \E ev \in Offered : Visual_y(ev)
    \/ \E ev \in Offered : Visual_d(ev)
    \/ \E ev \in Offered : Visual_c(ev)
    \/ \E ev \in Offered : Visual_h(ev)
    \/ \E ev \in Offered : Visual_j(ev)
    \/ \E ev \in Offered : Visual_k(ev)
    \/ \E ev \in Offered : Visual_l(ev)
    \/ \E ev \in Offered : Visual_E(ev)
    \/ \E ev \in Offered : Visual_zero(ev)
    \/ \E ev \in Offered : Visual_b(ev)
    \/ \E ev \in Offered : Visual_w(ev)
    \/ \E ev \in Offered : Visual_other(ev)

Spec == Init /\ [][Next]_vars

\* run checks its loop condition as soon as handle_events has returned
FairSpec == Spec /\ WF_vars(run_exit)

(***************************************************************************)
(* A second environment: a session on a document.  It types one of a few   *)
(* documents into the new editor, leaves Insert mode, and then presses     *)
(* every key of the modes while the document is as typed; it makes one     *)
(* edit by hand, runs up to MaxCommands transform commands, and undoes no  *)
(* further than the document it typed.                                     *)
(***************************************************************************)
\* the documents typed
Hello == Str(<<"h", "e", "l", "l", "o">>)
EditTexts ==
    {Hello,
     Str(<<"[", "1", ",">>) \o <<NL>> \o Str(<<"2", "]">>)}

\* whether the undo history, up to its first n edits, is the typing of
\* one of the documents
typed_in(h, n) ==
    /\ 0 < n
    /\ n <= Len(h)
    /\ \E t \in EditTexts : Len(t) = n /\ join(h[n].lines_after, <<NL>>) = t

\* The events the environment delivers in the current state of a session.
EditOffered ==
    LET h == editor.history
        text == join(editor.lines, <<NL>>)
        cmd == join(commandline.lines, <<NL>>)
        opening == mode = Insert /\ Len(h) = Len(text) /\ straight(editor)
                   /\ \E t \in EditTexts : Len(text) < Len(t) /\ SubSeq(t, 1, Len(text)) = text
        fresh == typed_in(h, Len(h))
        yanked == editor.yank # TextArea_default.yank
        quiet == ~yanked /\ editor.cursor = <<0, 0>>
        undoable == /\ \E n \in 1..(editor.hidx - 1) : typed_in(h, n)
                    /\ Len(h) - editor.hidx < 2
        transformed == /\ editor.hidx = Len(h)
                       /\ Len(h) >= 2
                       /\ h[Len(h)].lines_before = << <<>> >>
                       /\ h[Len(h) - 1].lines_after = << <<>> >>
    IN
    CASE mode.tag = "Insert" ->
            IF opening
            THEN {ev \in Presses({"h", "e", "l", "o", "[", "1", ",", "2", "]"})
                         \cup {Press(KeyEnter)} :
                     \E t \in EditTexts :
                        /\ Len(text) < Len(t)
                        /\ SubSeq(t, 1, Len(text) + 1) = Append(text, char_of(ev))}
            ELSE {Press(KeyEsc)}
                 \cup (IF fresh /\ ~yanked
                       THEN Presses({"X"}) \cup {Press(KeyEnter)} ELSE {})
                 \cup (IF fresh /\ quiet THEN OddEvents \cup {Repeat(Char("X"))} ELSE {})
      [] mode.tag = "Normal" ->
            IF fresh
            THEN Presses((BoundChars \cup UnboundChars) \ {"u", "p", "o", "O"})
                 \cup (IF yanked THEN Presses({"p"}) ELSE Presses({"o", "O"}))
                 \cup (IF quiet THEN OddEvents \cup {Press(KeyEsc), Repeat(Char("l"))}
                       ELSE {})
            ELSE Presses({";", "U"})
                 \cup (IF undoable THEN Presses({"u"}) ELSE {})
                 \cup (IF transformed THEN Presses({"p"}) ELSE {})
      [] mode.tag = "Visual" ->
            {Press(KeyEsc)}
            \cup Presses((BoundChars \cup UnboundChars) \ {"d", "c"})
            \cup (IF ~yanked THEN Presses({"d", "c"}) ELSE {})
            \cup (IF quiet THEN OddEvents \cup {Repeat(Char("l"))} ELSE {})
      [] mode.tag = "Command" ->
            {Press(KeyEsc)}
            \cup (IF Len(cmd) <= 3 \/ transforms(editor) < MaxCommands
                  THEN {Press(KeyEnter)} ELSE {})
            \cup (IF /\ editor.hidx = Len(h)
                     /\ editor.cursor = end_of(editor.lines)
                     /\ fresh \/ transforms(editor) > 0
                     /\ transforms(editor) < MaxCommands
                  THEN {ev \in Presses(CmdChars) : Append(cmd, char_of(ev)) \in CmdPrefixes}
                  ELSE IF quiet THEN OddEvents ELSE {})

EditNext ==
    \/ run_exit
    \/ \E ev \in EditOffered : handle_events_other(ev)
    \/ \E ev \in EditOffered : Insert_Esc(ev)
    \/ \E ev \in EditOffered : Insert_input(ev)
    \/ \E ev \in EditOffered : Normal_u(ev)
    \/ \E ev \in EditOffered : Normal_U(ev)
    \/ \E ev \in EditOffered : Normal_i(ev)
    \/ \E ev \in EditOffered : Normal_a(ev)
    \/ \E ev \in EditOffered : Normal_v(ev)
    \/ \E ev \in EditOffered : Normal_command(ev)
    \/ \E ev \in EditOffered : Normal_p(ev)
    \/ \E ev \in EditOffered : Normal_h(ev)
    \/ \E ev \in EditOffered : Normal_j(ev)
    \/ \E ev \in EditOffered : Normal_k(ev)
    \/ \E ev \in EditOffered : Normal_l(ev)
    \/ \E ev \in EditOffered : Normal_b(ev)
    \/ \E ev \in EditOffered : Normal_w(ev)
    \/ \E ev \in EditOffered : Normal_E(ev)
    \/ \E ev \in EditOffered : Normal_zero(ev)
    \/ \E ev \in EditOffered : Normal_I(ev)
    \/ \E ev \in EditOffered : Normal_A(ev)
    \/ \E ev \in EditOffered : Normal_o(ev)
    \/ \E ev \in EditOffered : Normal_O(ev)
    \/ \E ev \in EditOffered : Normal_other(ev)
    \/ \E ev \in EditOffered : Command_Esc(ev)
    \/ \E ev \in EditOffered : Command_Enter(ev)
    \/ \E ev \in EditOffered : Command_input(ev)
    \/ \E ev \in EditOffered : Visual_Esc(ev)
    \/ \E ev \in EditOffered : Visual_y(ev)
    \/ \E ev \in EditOffered : Visual_d(ev)
    \/ \E ev \in EditOffered : Visual_c(ev)
    \/ \E ev \in EditOffered : Visual_h(ev)
    \/ \E ev \in EditOffered : Visual_j(ev)
    \/ \E ev \in EditOffered : Visual_k(ev)
    \/ \E ev \in EditOffered : Visual_l(ev)
    \/ \E ev \in EditOffered : Visual_E(ev)
    \/ \E ev \in EditOffered : Visual_zero(ev)
    \/ \E ev \in EditOffered : Visual_b(ev)
    \/ \E ev \in EditOffered : Visual_w(ev)
    \/ \E ev \in EditOffered : Visual_other(ev)

\* the program in a session on a document
EditSpec == Init /\ [][EditNext]_vars

(***************************************************************************)
(* Properties                                                              *)
(***************************************************************************)
\* the command line of a Command mode state, when it is one line
line_of_command == commandline.lines[1]

\* the results parse_command has for the command line as it stands
command_results ==
    {out.result : out \in parse_command(editor, commandline, should_exit)}

\* the text of the document, as the transforms read it
document == join(lines_of(editor), <<NL>>)

\* C1: for every mode and every key press, the mode after handle_keyevent is
\* the next state the transition table gives, and it is unchanged for a key
\* the table does not list.
C1_ModeFollowsTable ==
    [][\A ev \in Offered :
          LET is(chars) == ev.code.tag = "Char" /\ ev.code.c \in {Ord[c] : c \in chars}
              next_state ==
                  CASE mode.tag = "Insert" ->
                          IF ev.code = KeyEsc THEN Normal ELSE Insert
                    [] mode.tag = "Normal" ->
                          IF is({"i", "a", "I", "A", "o", "O"}) THEN Insert
                          ELSE IF is({"v"}) THEN Visual("Character")
                          ELSE IF is({";", " "}) THEN Command
                          ELSE Normal
                    [] mode.tag = "Visual" ->
                          IF ev.code = KeyEsc \/ is({"y", "d"}) THEN Normal
                          ELSE IF is({"c"}) THEN Insert
                          ELSE mode
                    [] mode.tag = "Command" ->
                          IF ev.code = KeyEsc \/ ev.code = KeyEnter THEN Normal
                          ELSE Command
          IN  ev.type = "Key" /\ ev.kind = "Press" /\ handle_keyevent(ev)
                 => mode' = next_state]_vars

\* Enter was pressed in Command mode and the mode is still Command: the
\* command failed and run returned its error.
C1_Witness == mode = Command /\ status = "failed"

\* C2: when Enter in Command mode runs a line that fails with "unknown
\* command", the mode returns to Normal, the document is unchanged and the
\* loop keeps running.
C2_UnknownCommandAbortsOnlyTheCommand ==
    [][\A ev \in Offered :
          /\ Command_Enter(ev)
          /\ \E r \in command_results : r.kind = "unknown command"
          => /\ mode' = Normal
             /\ lines_of(editor') = lines_of(editor)
             /\ status' = "running"]_vars

\* run has returned the "unknown command" error of a command line
C2_Witness ==
    /\ status = "failed"
    /\ error = UnknownCommand(line_of_command)
    /\ nth_token(line_of_command, 0) = Str(<<"x">>)

\* C3: `base64 decode` on a document that is not base64, or that decodes to
\* bytes that are not UTF-8, fails with an error value, does not panic, and
\* leaves the document as it was.
C3_DecodeFailureKeepsTheDocument ==
    [][\A ev \in Offered :
          LET decoded == b64_decode(document) IN
          /\ Command_Enter(ev)
          /\ Len(commandline.lines) = 1
          /\ nth_token(line_of_command, 0) = Str(<<"b", "a", "s", "e", "6", "4">>)
          /\ nth_token(line_of_command, 1) = Str(<<"d", "e", "c", "o", "d", "e">>)
          /\ ~decoded.ok \/ ~from_utf8(decoded.value).ok
          => /\ error' \in {DecodeError, Utf8Error}
             /\ status' # "panicked"
             /\ lines_of(editor') = lines_of(editor)]_vars

\* `base64 decode` has failed on bytes that are not UTF-8, and the document
\* is empty: its text is in the yank register
C3_Witness ==
    /\ status = "failed"
    /\ error = Utf8Error
    /\ lines_of(editor) = << <<>> >>
    /\ editor.yank = <<Str(<<"1", "1", "1", "1">>)>>

\* C4: `json format` on a document that is not JSON (here one that holds
\* text) fails without ending the program: an error is reported, there is
\* no panic and the loop keeps running.
C4_JsonFailureIsNotFatal ==
    [][\A ev \in Offered :
          /\ Command_Enter(ev)
          /\ Len(commandline.lines) = 1
          /\ nth_token(line_of_command, 0) = Str(<<"j", "s", "o", "n">>)
          /\ nth_token(line_of_command, 1) = Str(<<"f", "o", "r", "m", "a", "t">>)
          /\ document # <<>>
          /\ ~json_valid(document)
          => /\ error' \notin {NoError, UnwrapPanic}
             /\ status' = "running"]_vars

\* `json format` has panicked on a document that is not JSON
C4_Witness ==
    /\ status = "panicked"
    /\ error = UnwrapPanic
    /\ editor.yank = <<Str(<<"V">>)>>

\* a state of the run from a new document: the mode, the command line and
\* should_exit
quit_stage(m, line, exit) ==
    /\ mode = m
    /\ commandline.lines = <<line>>
    /\ should_exit = exit
    /\ editor = TextArea_default
    /\ status = "running"

\* C5: from the initial state the key presses Esc, `;` (or space), `q`,
\* Enter lead through Normal and Command to should_exit, and the loop then
\* ends without reading another event.
C5_QuitSequence ==
    /\ [][/\ quit_stage(Insert, <<>>, FALSE) /\ handle_events(Press(KeyEsc))
             => quit_stage(Normal, <<>>, FALSE)'
          /\ /\ quit_stage(Normal, <<>>, FALSE)
             /\ handle_events(Press(Char(";"))) \/ handle_events(Press(Char(" ")))
             => quit_stage(Command, <<>>, FALSE)'
          /\ quit_stage(Command, <<>>, FALSE) /\ handle_events(Press(Char("q")))
             => quit_stage(Command, Str(<<"q">>), FALSE)'
          /\ quit_stage(Command, Str(<<"q">>), FALSE) /\ handle_events(Press(KeyEnter))
             => quit_stage(Normal, <<>>, TRUE)'
          /\ should_exit
             => /\ status' = "exited"
                /\ UNCHANGED <<mode, editor, commandline, should_exit, event_kind>>]_vars
    /\ (should_exit ~> status = "exited")

\* the loop has ended after `q` on a new document
C5_Witness ==
    /\ status = "exited"
    /\ should_exit
    /\ mode = Normal
    /\ editor = TextArea_default
    /\ commandline.lines = << <<>> >>

\* C6: should_exit is false initially; it becomes true only when Enter is
\* pressed in Command mode on a line whose first token is `q`, and it is
\* never reset.
C6_ExitOnlyByQ ==
    /\ ~should_exit
    /\ [][should_exit' # should_exit
             => /\ ~should_exit
                /\ should_exit'
                /\ mode = Command
                /\ handle_keyevent(Press(KeyEnter))
                /\ Len(commandline.lines) = 1
                /\ nth_token(line_of_command, 0) = Str(<<"q">>)]_vars

\* `q x` has set should_exit and the loop has not yet looked at it
C6_Witness ==
    /\ should_exit
    /\ status = "running"
    /\ lines_of(editor) # << <<>> >>

\* C7: every Enter press and every Esc press handled in Command mode leaves
\* a one-line command line cleared, whether or not the command succeeded.
C7_EnterAndEscClear ==
    [][\A ev \in Offered :
          /\ Command_Enter(ev) \/ Command_Esc(ev)
          /\ Len(commandline.lines) = 1
          => commandline'.lines = << <<>> >>]_vars

\* Enter was handled and the command line still holds the line
C7_Witness ==
    /\ status = "failed"
    /\ Len(commandline.lines) = 1
    /\ line_of_command = Str(<<"j", "s", "o", "n">>)

\* C8: Enter in Command mode while the command line holds more than one
\* line fails with "more lines than expected" and changes neither the
\* document nor should_exit, whatever the lines hold.
C8_MoreLinesFails ==
    [][\A ev \in Offered :
          Command_Enter(ev) /\ Len(commandline.lines) > 1
          => /\ error' = MoreLines
             /\ status' = "failed"
             /\ editor' = editor
             /\ should_exit' = should_exit]_vars

\* the command line `q`, line break, `q` has failed, and should_exit is
\* not set
C8_Witness ==
    /\ error = MoreLines
    /\ status = "failed"
    /\ commandline.lines = <<Str(<<"q">>), Str(<<"q">>)>>
    /\ ~should_exit

\* C9: in every mode a key release and an event that is no key event change
\* neither the mode nor should_exit, and do nothing to the document or to
\* the command line.
C9_ReleaseAndOtherEventsIgnored ==
    [][\A ev \in Offered :
          /\ handle_events(ev)
          /\ ev.type # "Key" \/ ev.kind = "Release"
          => /\ UNCHANGED <<mode, should_exit, editor, commandline>>
             /\ status' = "running"]_vars

\* a key was released in Insert mode, with text in the document
C9_Witness ==
    /\ event_kind = "Release"
    /\ mode = Insert
    /\ lines_of(editor) # << <<>> >>

\* C10: a command line with a known verb and a missing second token or
\* extra tokens gives the error "unknown command: <line>" and runs no
\* transform (here on a document that holds text).
C10_MalformedArgumentsAreUnknown ==
    [][\A ev \in Offered :
          /\ Command_Enter(ev)
          /\ Len(commandline.lines) = 1
          /\ nth_token(line_of_command, 0)
                \in {Str(<<"j", "s", "o", "n">>), Str(<<"b", "a", "s", "e", "6", "4">>)}
          /\ Len(split_whitespace(line_of_command)) # 2
          /\ document # <<>>
          => /\ error' = UnknownCommand(line_of_command)
             /\ editor' = editor]_vars

\* C15: the mode is always one of Insert, Normal, Visual(Character) and
\* Command, and Visual mode is entered only from Normal mode, by a press
\* of `v`.
C15_VisualIsCharacter ==
    /\ [](mode \in {Insert, Normal, Visual("Character"), Command})
    /\ [][mode'.tag = "Visual" /\ mode.tag # "Visual"
             => mode = Normal /\ handle_keyevent(Press(Char("v")))]_vars

\* Visual mode, with a selection that holds text
C15_Witness ==
    /\ mode = Visual("Character")
    /\ editor.selection_start # None
    /\ editor.selection_start # editor.cursor

\* C16: `O` in Normal mode opens an empty line right above the line the
\* cursor was on, puts the cursor on it and enters Insert mode, whichever
\* line the cursor is on (here a line that holds text).
C16_OpensLineAbove ==
    [][\A ev \in Offered :
          LET row == editor.cursor[1]
              lines == lines_of(editor)
          IN  Normal_O(ev) /\ lines[row + 1] # <<>>
              => /\ lines_of(editor') =
                       SubSeq(lines, 1, row) \o << <<>> >> \o SubSeq(lines, row + 1, Len(lines))
                 /\ editor'.cursor = <<row, 0>>
                 /\ mode' = Insert]_vars

\* `O` on the first line of a one-line document has opened the line below
C16_Witness ==
    /\ mode = Insert
    /\ lines_of(editor) = <<Str(<<"1">>), <<>> >>
    /\ editor.cursor = <<1, 0>>
    /\ editor.hidx = 2
    /\ editor.history[2].before = <<0, 1>>

\* a command line that runs a transform of the document
is_transform(cl) ==
    /\ Len(lines_of(cl)) = 1
    /\ \/ /\ nth_token(lines_of(cl)[1], 0) = Str(<<"j", "s", "o", "n">>)
          /\ nth_token(lines_of(cl)[1], 1) = Str(<<"f", "o", "r", "m", "a", "t">>)
       \/ /\ nth_token(lines_of(cl)[1], 0) = Str(<<"b", "a", "s", "e", "6", "4">>)
          /\ nth_token(lines_of(cl)[1], 1)
                \in {Str(<<"e", "n", "c", "o", "d", "e">>), Str(<<"d", "e", "c", "o", "d", "e">>)}

\* C17, as claimed: an event handled in Insert, Normal or Visual mode leaves
\* the text of the command buffer as it is, and an event handled in Command
\* mode leaves the text of the main buffer as it is (here for the events
\* handled without an error while the document starts with text).
C17_OnlyTheActiveBufferIsWritten ==
    [][\A ev \in Offered :
          handle_events(ev) /\ status' = "running" /\ lines_of(editor)[1] # <<>>
          => /\ mode.tag # "Command" => lines_of(commandline') = lines_of(commandline)
             /\ mode.tag = "Command" => lines_of(editor') = lines_of(editor)]_vars

\* C17, amended: an event handled in Insert, Normal or Visual mode leaves
\* the command buffer as it is; an event handled in Command mode leaves the
\* main buffer as it is unless it is Enter on a transform command.
C17_OnlyCommandsWriteAcrossModes ==
    [][\A ev \in Offered :
          handle_events(ev)
          => /\ mode.tag # "Command" => commandline' = commandline
             /\ mode.tag = "Command" /\ ~(Command_Enter(ev) /\ is_transform(commandline))
                   => editor' = editor]_vars

\* `base64 encode` has run in Command mode and replaced the document `1`
C17_Witness ==
    /\ status = "running"
    /\ mode = Normal
    /\ lines_of(editor) = <<Str(<<"M", "Q", "=", "=">>)>>
    /\ editor.hidx = 3
    /\ editor.history[2].lines_before = <<Str(<<"1">>)>>

\* C18: Enter in Command mode on a command line that is empty or holds only
\* whitespace fails with "unknown command"; the error ends the loop, and
\* the mode is still Command.
C18_BlankLineIsUnknown ==
    [][\A ev \in Offered :
          /\ Command_Enter(ev)
          /\ Len(commandline.lines) = 1
          /\ split_whitespace(line_of_command) = <<>>
          => /\ error' = UnknownCommand(line_of_command)
             /\ status' = "failed"
             /\ mode' = Command
             /\ UNCHANGED <<editor, commandline, should_exit>>]_vars

\* Enter on a command line of one space has failed
C18_Witness ==
    /\ status = "failed"
    /\ error = UnknownCommand(Str(<<" ">>))
    /\ commandline.lines = <<Str(<<" ">>)>>
    /\ mode = Command

\* while the loop runs outside Command mode, the command line is empty
commandline_tidy ==
    status = "running" /\ mode # Command => commandline.lines = << <<>> >>

RECURSIVE undo_times(_, _)
\* n presses of `u`: TextArea::undo, n times
undo_times(ta, n) == IF n = 0 THEN ta ELSE undo_times(undo(ta), n - 1)

\* the command line's verb is `json` and the document is not JSON: what
\* the formatter makes of it is not known
json_on_other_text ==
    /\ nth_token(line_of_command, 0) = Str(<<"j", "s", "o", "n">>)
    /\ ~json_valid(document)

\* C11, as claimed: after a successful transform command two undo
\* operations (one for the cut, one for the insert) give back the text the
\* document had before the command, whatever the document was (`json
\* format` here on documents that are JSON).
C11_TwoUndosRecover ==
    [][\A ev \in EditOffered :
          /\ Command_Enter(ev)
          /\ is_transform(commandline)
          /\ ~json_on_other_text
          /\ status' = "running"
          => lines_of(undo_times(editor', 2)) = lines_of(editor)]_vars

\* C11, amended: a successful transform command records at most two edits,
\* none exactly when the document is empty, and as many undo operations as
\* it recorded edits give back the text the document had before it.
C11_UndoRecoversDocument ==
    [][\A ev \in EditOffered :
          /\ Command_Enter(ev)
          /\ is_transform(commandline)
          /\ status' = "running"
          => LET n == editor'.hidx - editor.hidx IN
             /\ n \in 0..2
             /\ n = 0 <=> document = <<>>
             /\ n = 2 <=> document # <<>> /\ lines_of(editor') # << <<>> >>
             /\ editor'.hidx = Len(editor'.history)
             /\ lines_of(undo_times(editor', n)) = lines_of(editor)]_vars

\* `u` was pressed twice after a transform of a document that holds text:
\* the cut and the insert are the next two edits to redo, and the document
\* is the one the cut recorded
C11_Witness ==
    /\ mode = Normal
    /\ status = "running"
    /\ editor.hidx + 2 = Len(editor.history)
    /\ editor.history[editor.hidx + 1].lines_after = << <<>> >>
    /\ editor.history[editor.hidx + 2].lines_before = << <<>> >>
    /\ editor.history[editor.hidx + 2].lines_after # lines_of(editor)
    /\ lines_of(editor) = editor.history[editor.hidx + 1].lines_before
    /\ document # <<>>

\* the document is the base64 text of the text a command cut before it
\* inserted this one: the last two edits are the cut and the insert
encoded(ta) ==
    LET h == ta.history
        n == ta.hidx
    IN  /\ n = Len(h)
        /\ n >= 2
        /\ h[n - 1].lines_after = << <<>> >>
        /\ h[n].lines_before = << <<>> >>
        /\ h[n].lines_after = lines_of(ta)
        /\ lines_of(ta) = <<b64_encode(join(h[n - 1].lines_before, <<NL>>))>>

\* C12: `base64 decode` run on the document `base64 encode` made gives
\* back the lines encoded, in their order; on the empty document, which
\* `base64 encode` leaves empty, it gives the empty document.
C12_EncodeThenDecode ==
    [][\A ev \in EditOffered :
          /\ Command_Enter(ev)
          /\ Len(commandline.lines) = 1
          /\ nth_token(line_of_command, 0) = Str(<<"b", "a", "s", "e", "6", "4">>)
          /\ nth_token(line_of_command, 1) = Str(<<"d", "e", "c", "o", "d", "e">>)
          /\ encoded(editor) \/ document = <<>>
          => /\ status' = "running"
             /\ lines_of(editor') =
                   IF document = <<>> THEN << <<>> >>
                   ELSE editor.history[editor.hidx - 1].lines_before]_vars

\* a document of two lines was encoded and then decoded: the four last
\* edits are the two cuts and the two inserts, and the document is the
\* one first cut
C12_Witness ==
    LET h == editor.history
        n == editor.hidx
    IN  /\ status = "running"
        /\ n = Len(h)
        /\ n >= 4
        /\ encoded([editor EXCEPT !.history = SubSeq(h, 1, n - 2), !.hidx = n - 2,
                                  !.lines = h[n - 2].lines_after])
        /\ h[n - 1].lines_before = h[n - 2].lines_after
        /\ h[n - 1].lines_after = << <<>> >>
        /\ h[n].lines_after = lines_of(editor)
        /\ lines_of(editor) = h[n - 3].lines_before
        /\ Len(lines_of(editor)) = 2

\* the motion arms of Normal mode
Normal_motion(ev) ==
    \/ Normal_h(ev)
    \/ Normal_j(ev)
    \/ Normal_k(ev)
    \/ Normal_l(ev)
    \/ Normal_b(ev)
    \/ Normal_w(ev)
    \/ Normal_E(ev)
    \/ Normal_zero(ev)

\* the document `hello` with the cursor in column col
hello_stage(m, col) ==
    /\ mode = m
    /\ lines_of(editor) = <<Hello>>
    /\ editor.cursor = <<0, col>>
    /\ status = "running"

\* C13: a motion key of Normal mode changes neither the mode nor the text,
\* `i` enters Insert mode and leaves the editor as it is, and from `hello`
\* with the cursor in column 0 three presses of `l`, then `i`, then `X` give
\* `helXlo`.
C13_MotionsThenInsert ==
    [][/\ \A ev \in EditOffered :
             Normal_motion(ev) => mode' = mode /\ lines_of(editor') = lines_of(editor)
       /\ \A ev \in EditOffered :
             Normal_i(ev) => mode' = Insert /\ editor' = editor
       /\ \A col \in 0..2 :
             hello_stage(Normal, col) /\ handle_events(Press(Char("l")))
             => hello_stage(Normal, col + 1)'
       /\ hello_stage(Normal, 3) /\ handle_events(Press(Char("i")))
             => hello_stage(Insert, 3)'
       /\ hello_stage(Insert, 3) /\ handle_events(Press(Char("X")))
             => /\ mode' = Insert
                /\ lines_of(editor') = <<Str(<<"h", "e", "l", "X", "l", "o">>)>>]_vars

\* `X` was typed into `hello` at column 3
C13_Witness ==
    /\ mode = Insert
    /\ lines_of(editor) = <<Str(<<"h", "e", "l", "X", "l", "o">>)>>
    /\ editor.cursor = <<0, 4>>
    /\ editor.history[editor.hidx].before = <<0, 3>>

\* the number of characters of the document before a position, line
\* breaks included
offset_of(lines, pos) == Len(join(text_between(lines, <<0, 0>>, pos), <<NL>>))

RECURSIVE forward_times(_, _)
\* n presses of `l` in Visual mode: move_cursor(CursorMove::Forward), n times
forward_times(ta, n) ==
    IF n = 0 THEN ta ELSE forward_times(move_cursor(ta, "Forward"), n - 1)

\* the editor as it was when `v` was pressed, in a Visual mode state
at_v == [editor EXCEPT !.cursor = editor.selection_start]

\* C14, as claimed: `y` in Visual mode, with the cursor where n presses of
\* `l` take it from the position `v` was pressed at, puts in the register
\* the n characters of the document from that position on, returns to
\* Normal mode and leaves the text as it is, for every n (here from 1).
C14_YankTakesNCharacters ==
    [][\A ev \in EditOffered :
          Visual_y(ev)
          => /\ mode' = Normal
             /\ lines_of(editor') = lines_of(editor)
             /\ LET from == offset_of(lines_of(editor), editor.selection_start) IN
                \A n \in 1..(Len(document) + 1) :
                   forward_times(at_v, n).cursor = editor.cursor
                   => /\ from + n <= Len(document)
                      /\ join(editor'.yank, <<NL>>) = Slice(document, from, from + n)]_vars

\* C14, amended: the register gets the n characters when the document has
\* n characters from the position of `v` on, and as many as it has when it
\* has fewer; when that is none the register keeps what it held.
C14_YankTakesSelectedCharacters ==
    [][\A ev \in EditOffered :
          Visual_y(ev)
          => /\ mode' = Normal
             /\ lines_of(editor') = lines_of(editor)
             /\ LET from == offset_of(lines_of(editor), editor.selection_start) IN
                \A n \in 0..(Len(document) + 1) :
                   forward_times(at_v, n).cursor = editor.cursor
                   => LET k == Min(n, Len(document) - from) IN
                      IF k = 0 THEN editor'.yank = editor.yank
                      ELSE join(editor'.yank, <<NL>>) = Slice(document, from, from + k)]_vars

\* `v` at the start of `hello`, `l` twice and `y`: the register holds `he`
C14_Witness ==
    /\ mode = Normal
    /\ lines_of(editor) = <<Hello>>
    /\ editor.yank = <<Str(<<"h", "e">>)>>
    /\ editor.cursor = <<0, 2>>
    /\ editor.selection_start = None

\* C20: a transform command run on a document that holds text leaves the
\* whole text the document had in the register, and `p` in Normal mode
\* inserts what the register holds at the cursor.
C20_TransformOverwritesRegister ==
    [][\A ev \in EditOffered :
          /\ Command_Enter(ev) /\ is_transform(commandline) /\ document # <<>>
             => editor'.yank = lines_of(editor)
          /\ Normal_p(ev)
             => LET here == offset_of(lines_of(editor), editor.cursor) IN
                /\ join(lines_of(editor'), <<NL>>) =
                      Slice(document, 0, here) \o join(editor.yank, <<NL>>)
                      \o Slice(document, here, Len(document))
                /\ editor'.yank = editor.yank]_vars

\* `p` after a transform of `hello`: the last three edits are the cut, the
\* insert and the paste, and what was pasted is `hello`
C20_Witness ==
    LET h == editor.history
        n == editor.hidx
    IN  /\ mode = Normal
        /\ n = Len(h)
        /\ n >= 3
        /\ h[n - 2].lines_before = <<Hello>>
        /\ h[n - 2].lines_after = << <<>> >>
        /\ h[n - 1].lines_before = << <<>> >>
        /\ h[n].lines_before = h[n - 1].lines_after
        /\ editor.yank = <<Hello>>
        /\ lines_of(editor) = <<h[n - 1].lines_after[1] \o Hello>>

====
